---- MODULE Spec2Model ----
(***************************************************************************)
(* Model of the Astarte AppEngine datasource backend (pkg/plugin/plugin.go) *)
(* The datasource serves one request at a time in this model: a QueryData  *)
(* batch, whose queries run one after the other through query(), or a      *)
(* CallResource request.  The Astarte client (paginator, GetDevice) is the *)
(* environment: every answer it gives is drawn from a small set at the     *)
(* moment the code calls it, and recorded in a log.                        *)
(***************************************************************************)
EXTENDS Integers, Sequences, FiniteSets, TLC

VARIABLES
    handler,      \* which handler is running: "none", "QueryData", "CallResource"
    pc,           \* position inside the running handler
    req,          \* req.Queries of the QueryData request
    qi,           \* index of the query the range loop of QueryData is at
    qm,           \* query(): the unmarshalled queryModel
    timestamps,   \* query(): timestamps slice
    values,       \* query(): values slice
    page,         \* query(): the page GetNextPage returned
    idx,          \* query(): index of the range loop over page
    res,          \* query(): the DataResponse being returned
    responses,    \* response.Responses, RefID -> DataResponse
    ctxDone,      \* the caller's context has been cancelled
    log,          \* the client calls the running query() made, with their answers
    samplesLeft,  \* samples the remote platform still holds
    pagesLeft,    \* follow-up pages the remote platform still grants
    url,          \* CallResource: the parsed request parameters
    sent,         \* CallResource: responses handed to sender.Send
    panicked,     \* CallResource: the handler ended in a runtime panic
    contacted     \* CallResource: GetDevice calls made

vars == <<handler, pc, req, qi, qm, timestamps, values, page, idx, res,
          responses, ctxDone, log, samplesLeft, pagesLeft,
          url, sent, panicked, contacted>>

queryVars == <<qm, timestamps, values, page, idx, res>>
resourceVars == <<url, sent, panicked, contacted>>

----------------------------------------------------------------------------
(* Bounds of the model *)

MaxQueries == 2     \* queries in one QueryData request
MaxSamples == 2     \* samples the remote platform holds for one request
MaxMorePages == 2   \* follow-up pages the paginator grants in one request

----------------------------------------------------------------------------
(* Inputs *)

\* RefID of the i-th query of a request: distinct per query, not its index.
RefIDPool == <<"C", "A", "D", "B", "F", "E">>
RefIDOf(i) == RefIDPool[i]

\* query.JSON payloads: a malformed text, or an object given as its set of
\* <<key, value>> members (one with an empty device and no interfaceName,
\* one complete with a key the queryModel does not know).
Payloads ==
    { [wellFormed |-> FALSE, members |-> {}],
      [wellFormed |-> TRUE,  members |-> {<<"device", "">>, <<"path", "/p">>}],
      [wellFormed |-> TRUE,  members |-> {<<"device", "d1">>, <<"interfaceName", "i1">>,
                                           <<"path", "/p">>, <<"unknown", "x">>}] }

\* Samples the remote platform can return (client.DatastreamValue): a
\* timestamp and a value of dynamic type.
Samples ==
    { [Timestamp |-> 1, type |-> "float64", num |-> 10, str |-> ""],
      [Timestamp |-> 2, type |-> "int64",   num |-> 20, str |-> ""],
      [Timestamp |-> 1, type |-> "string",  num |-> 0,  str |-> "7"],
      [Timestamp |-> 2, type |-> "string",  num |-> 0,  str |-> "abc"],
      [Timestamp |-> 1, type |-> "bool",    num |-> 0,  str |-> ""],
      [Timestamp |-> 2, type |-> "nil",     num |-> 0,  str |-> ""] }

SeqsUpTo(S, n) == UNION { [1..k -> S] : k \in 0..n }

\* Errors of the Astarte client.
RemoteErrors == {"unauthorized", "timeout"}

----------------------------------------------------------------------------
(* Values of the program *)

NoError == [kind |-> "nil", msg |-> "", device |-> "", interfaceName |-> "", path |-> ""]
JSONError == [kind |-> "json", msg |-> "invalid character", device |-> "", interfaceName |-> "", path |-> ""]
RemoteError(e) == [kind |-> "remote", msg |-> e, device |-> "", interfaceName |-> "", path |-> ""]

EmptyQM == [Device |-> "", InterfaceName |-> "", Path |-> ""]
NoPage == <<>>
EmptyResponse == [Error |-> NoError, Frames |-> <<>>]
NoResponses == [k \in {} |-> EmptyResponse]

\* Log entries: one per call to the Astarte client.
LogPaginator(e) == [op |-> "paginator", err |-> e, page |-> <<>>, more |-> FALSE]
LogPage(e, p) == [op |-> "GetNextPage", err |-> e, page |-> p, more |-> FALSE]
LogHasNext(b) == [op |-> "HasNextPage", err |-> "", page |-> <<>>, more |-> b]

----------------------------------------------------------------------------
(* query(): helpers *)

\* encoding/json: the value of key k, or the zero value "" when k is absent.
Field(members, k) ==
    IF \E m \in members : m[1] = k
    THEN (CHOOSE m \in members : m[1] = k)[2]
    ELSE ""

\* json.Unmarshal(query.JSON, &qm): an error for a malformed text; otherwise
\* known keys are copied, unknown keys ignored, absent keys left "".
Unmarshal(json) ==
    IF ~json.wellFormed
    THEN [err |-> JSONError, qm |-> EmptyQM]
    ELSE [err |-> NoError,
          qm  |-> [Device        |-> Field(json.members, "device"),
                   InterfaceName |-> Field(json.members, "interfaceName"),
                   Path          |-> Field(json.members, "path")]]

\* Variant: a plain while loop, the condition consulted before the first fetch.
LoopEntryWhile == "HasNextPage"

\* for ok := true; ok; ok = paginator.HasNextPage(): the body runs first.
LoopEntry == "GetNextPage"

\* Variant: a bool falls into a numeric case instead of the default case.
AcceptedTypeAlsoBool(v) == v.type \in {"float64", "int64", "bool"}

\* The switch on v.Value.(type): the cases that append to the series.
AcceptedType(v) == v.type \in {"float64", "int64"}

\* v.Value.(float64), float64(v.Value.(int64)): exact for the magnitudes of
\* the model (below 2^53).
Float64Of(v) == v.num

\* Variant: the newest timestamp is put in front.
AppendTimestampFront(ts, v) == <<v.Timestamp>> \o ts

\* Variant: the int64 case forgets to append the value.
AppendValueFloatOnly(vs, v) == IF v.type = "float64" THEN Append(vs, v.num) ELSE vs

AppendTimestamp(ts, v) == Append(ts, v.Timestamp)
AppendValue(vs, v) == Append(vs, Float64Of(v))

\* Variant: the samples read so far are returned along with the error.
PageErrorResponseKeepsPartial(e, ts, vs) ==
    [Error  |-> [kind |-> "remote", msg |-> e, device |-> "", interfaceName |-> "", path |-> ""],
     Frames |-> << [Name |-> "response", Time |-> ts, Value |-> vs] >>]

\* GetNextPage failed: response.Error = err; return response.
PageErrorResponse(e, ts, vs) == [Error |-> RemoteError(e), Frames |-> <<>>]

\* The default case of the type switch.
TypeErrorResponse(m) ==
    [Error  |-> [kind |-> "type", msg |-> "has no int/double data",
                 device |-> m.Device, interfaceName |-> m.InterfaceName, path |-> m.Path],
     Frames |-> <<>>]

\* The frame "response" with fields Time and Value, appended to Frames.
SuccessResponse(ts, vs) ==
    [Error  |-> NoError,
     Frames |-> << [Name |-> "response", Time |-> ts, Value |-> vs] >>]

\* response.Responses[q.RefID] = res
StoreResponse(m, k, r) ==
    [x \in (DOMAIN m) \cup {k} |-> IF x = k THEN r ELSE m[x]]

\* Variant: the batch is abandoned at the first query that fails.
AfterStoreStopsOnError(r, i, n) ==
    IF i + 1 > n \/ r.Error.kind # "nil" THEN "done" ELSE "query"

\* The range loop over req.Queries: the next query, or the return.
AfterStore(r, i, n) == IF i + 1 > n THEN "done" ELSE "query"

Logged(entry) == Append(log, entry)

----------------------------------------------------------------------------
(* Init *)

Init ==
    /\ handler = "none"
    /\ pc = "idle"
    /\ req = <<>>
    /\ qi = 0
    /\ qm = EmptyQM
    /\ timestamps = <<>>
    /\ values = <<>>
    /\ page = NoPage
    /\ idx = 0
    /\ res = EmptyResponse
    /\ responses = NoResponses
    /\ ctxDone = FALSE
    /\ log = <<>>
    /\ samplesLeft = MaxSamples
    /\ pagesLeft = MaxMorePages
    /\ url = [parsed |-> TRUE, params |-> {}, device_id |-> ""]
    /\ sent = <<>>
    /\ panicked = FALSE
    /\ contacted = 0

----------------------------------------------------------------------------
(* QueryData and query() *)

Requests ==
    { [i \in 1..Len(js) |-> [RefID |-> RefIDOf(i), JSON |-> js[i]]] :
        js \in SeqsUpTo(Payloads, MaxQueries) }

\* QueryData up to the range loop.
QueryData ==
    /\ handler = "none"
    /\ \E queries \in Requests :
        /\ req' = queries
        /\ pc' = IF Len(queries) = 0 THEN "done" ELSE "query"
    /\ handler' = "QueryData"
    /\ responses' = NoResponses
    /\ qi' = 1
    /\ UNCHANGED <<queryVars, ctxDone, log, samplesLeft, pagesLeft, resourceVars>>

\* query() up to the loop: unmarshal, then obtain the paginator.
QueryBegin ==
    /\ handler = "QueryData" /\ pc = "query"
    /\ LET u == Unmarshal(req[qi].JSON) IN
        IF u.err # NoError
        THEN /\ res' = [Error |-> u.err, Frames |-> <<>>]
             /\ pc' = "store"
             /\ UNCHANGED <<qm, timestamps, values, log>>
        ELSE /\ qm' = u.qm
             /\ \E e \in RemoteErrors \cup {""} :
                 /\ log' = Logged(LogPaginator(e))
                 /\ IF e # ""
                    THEN /\ res' = [Error |-> RemoteError(e), Frames |-> <<>>]
                         /\ pc' = "store"
                         /\ UNCHANGED <<timestamps, values>>
                    ELSE /\ timestamps' = <<>>
                         /\ values' = <<>>
                         /\ res' = EmptyResponse
                         /\ pc' = LoopEntry
    /\ UNCHANGED <<handler, req, qi, page, idx, responses, ctxDone,
                   samplesLeft, pagesLeft, resourceVars>>

\* page, err := paginator.GetNextPage()
GetNextPage ==
    /\ handler = "QueryData" /\ pc = "GetNextPage"
    /\ \/ \E e \in RemoteErrors :
            /\ log' = Logged(LogPage(e, <<>>))
            /\ res' = PageErrorResponse(e, timestamps, values)
            /\ pc' = "store"
            /\ UNCHANGED <<page, idx, samplesLeft>>
       \/ \E p \in SeqsUpTo(Samples, samplesLeft) :
            /\ log' = Logged(LogPage("", p))
            /\ page' = p
            /\ idx' = 1
            /\ samplesLeft' = samplesLeft - Len(p)
            /\ pc' = IF Len(p) = 0 THEN "HasNextPage" ELSE "sample"
            /\ UNCHANGED res
    /\ UNCHANGED <<handler, req, qi, qm, timestamps, values, responses, ctxDone,
                   pagesLeft, resourceVars>>

\* One iteration of for _, v := range page.
ProcessSample ==
    /\ handler = "QueryData" /\ pc = "sample"
    /\ LET v == page[idx] IN
        IF AcceptedType(v)
        THEN /\ timestamps' = AppendTimestamp(timestamps, v)
             /\ values' = AppendValue(values, v)
             /\ idx' = idx + 1
             /\ pc' = IF idx + 1 > Len(page) THEN "HasNextPage" ELSE "sample"
             /\ UNCHANGED res
        ELSE /\ res' = TypeErrorResponse(qm)
             /\ pc' = "store"
             /\ UNCHANGED <<timestamps, values, idx>>
    /\ UNCHANGED <<handler, req, qi, qm, page, responses, ctxDone, log,
                   samplesLeft, pagesLeft, resourceVars>>

\* ok = paginator.HasNextPage(); when false, the frame is built and returned.
HasNextPage ==
    /\ handler = "QueryData" /\ pc = "HasNextPage"
    /\ \E b \in (IF pagesLeft > 0 THEN BOOLEAN ELSE {FALSE}) :
        /\ log' = Logged(LogHasNext(b))
        /\ IF b
           THEN /\ pc' = "GetNextPage"
                /\ pagesLeft' = pagesLeft - 1
                /\ UNCHANGED res
           ELSE /\ res' = SuccessResponse(timestamps, values)
                /\ pc' = "store"
                /\ UNCHANGED pagesLeft
    /\ UNCHANGED <<handler, req, qi, qm, timestamps, values, page, idx, responses,
                   ctxDone, samplesLeft, resourceVars>>

\* query() returns; QueryData stores the response and moves on.
Store ==
    /\ handler = "QueryData" /\ pc = "store"
    /\ responses' = StoreResponse(responses, req[qi].RefID, res)
    /\ log' = <<>>
    /\ pc' = AfterStore(res, qi, Len(req))
    /\ qi' = qi + 1
    /\ qm' = EmptyQM
    /\ timestamps' = <<>>
    /\ values' = <<>>
    /\ page' = NoPage
    /\ idx' = 0
    /\ res' = EmptyResponse
    /\ UNCHANGED <<handler, req, ctxDone, samplesLeft, pagesLeft, resourceVars>>

\* The caller cancels the context while a query() call is running.
Cancel ==
    /\ handler = "QueryData" /\ pc \in {"query", "GetNextPage", "sample", "HasNextPage"}
    /\ ~ctxDone
    /\ ctxDone' = TRUE
    /\ UNCHANGED <<handler, pc, req, qi, queryVars, responses, log,
                   samplesLeft, pagesLeft, resourceVars>>

----------------------------------------------------------------------------
(* CallResource *)

Interfaces == {"i1", "i2"}

RECURSIVE Orderings(_)
Orderings(S) ==
    IF S = {} THEN { <<>> }
    ELSE UNION { { <<x>> \o t : t \in Orderings(S \ {x}) } : x \in S }

\* req.URL: whether url.Parse accepts it, the query parameters it carries,
\* and the first value of device_id.
ResourceRequests ==
    { [parsed |-> ok, params |-> ps, device_id |-> d] :
        ok \in BOOLEAN, ps \in SUBSET {"device_id", "name", "major"}, d \in {"", "dev1"} }

ErrorBody(e) == [text |-> e, list |-> <<>>]
ListBody(l) == [text |-> "", list |-> l]

\* params["device_id"][0] can be evaluated: u is not nil and the slice is
\* not empty.
CanReadDeviceID(r) == r.parsed /\ "device_id" \in r.params

CallResource ==
    /\ handler = "none"
    /\ handler' = "CallResource"
    /\ pc' = "done"
    /\ \E r \in ResourceRequests :
        /\ (("device_id" \in r.params) \/ r.device_id = "")
        /\ (r.parsed \/ r.params = {})
        /\ url' = r
        /\ IF ~CanReadDeviceID(r)
           THEN /\ panicked' = TRUE
                /\ UNCHANGED <<sent, contacted>>
           ELSE /\ panicked' = FALSE
                /\ contacted' = contacted + 1
                /\ \/ \E e \in RemoteErrors :
                        sent' = << [Status |-> 400, Body |-> ErrorBody(e)] >>
                   \/ \E I \in SUBSET Interfaces : \E l \in Orderings(I) :
                        sent' = << [Status |-> 200, Body |-> ListBody(l)] >>
    /\ UNCHANGED <<req, qi, queryVars, responses, ctxDone, log,
                   samplesLeft, pagesLeft>>

----------------------------------------------------------------------------

Next ==
    \/ QueryData
    \/ QueryBegin
    \/ GetNextPage
    \/ ProcessSample
    \/ HasNextPage
    \/ Store
    \/ Cancel
    \/ CallResource

Spec == Init /\ [][Next]_vars

----------------------------------------------------------------------------
(* Vocabulary of the properties *)

Last(s) == s[Len(s)]
Front(s) == SubSeq(s, 1, Len(s) - 1)

\* query() is about to return res.
AtReturn == handler = "QueryData" /\ pc = "store"

\* The paginator was obtained by the running query().
PaginatorObtained == log # <<>> /\ log[1].op = "paginator" /\ log[1].err = ""

IsGetNext(e) == e.op = "GetNextPage"
IsHasNext(e) == e.op = "HasNextPage"
IsTrueAnswer(e) == e.op = "HasNextPage" /\ e.more
NGetNext(l) == Len(SelectSeq(l, IsGetNext))
NHasNext(l) == Len(SelectSeq(l, IsHasNext))
NTrue(l) == Len(SelectSeq(l, IsTrueAnswer))

\* The samples of the pages the paginator yielded, in the order yielded.
RECURSIVE Yielded(_)
Yielded(l) ==
    IF l = <<>> THEN <<>>
    ELSE IF Last(l).op = "GetNextPage" THEN Yielded(Front(l)) \o Last(l).page
    ELSE Yielded(Front(l))

IsNumeric(v) == v.type = "float64" \/ v.type = "int64"
IsBoolOrNil(v) == v.type = "bool" \/ v.type = "nil"
IsString(v) == v.type = "string"

TimesOf(ss) == [i \in 1..Len(ss) |-> ss[i].Timestamp]
NumbersOf(ss) == [i \in 1..Len(ss) |-> ss[i].num]

\* Samples the range loop has gone past (or stopped at, minus one) so far.
Processed ==
    IF pc \in {"sample", "store"} /\ log # <<>> /\ Last(log).op = "GetNextPage" /\ Last(log).err = ""
    THEN Len(Yielded(Front(log))) + idx - 1
    ELSE Len(Yielded(log))

Succeeded(r) == r.Error = NoError /\ Len(r.Frames) = 1

----------------------------------------------------------------------------
(* Properties *)

\* C1: when GetNextPage fails, on the first page or a later one, query()
\* returns that very error and no frame, whatever was read from earlier pages.
C1_PageErrorNoFrame ==
    (AtReturn /\ log # <<>> /\ Last(log).op = "GetNextPage" /\ Last(log).err # "")
        => /\ res.Error.kind = "remote"
           /\ res.Error.msg = Last(log).err
           /\ res.Frames = <<>>

\* C1 witness: the second page fails after samples of the first were read.
C1_Witness ==
    /\ AtReturn /\ log # <<>>
    /\ Last(log).op = "GetNextPage" /\ Last(log).err = "timeout"
    /\ NGetNext(log) = 2
    /\ Len(timestamps) >= 1

\* C8: the loop is a do-while.  The first client call after the paginator is
\* GetNextPage; HasNextPage follows a page that was read without error and is
\* asked once per such page; a further GetNextPage follows only a true
\* answer; a false answer or an error is the last call; so the fetches are
\* one more than the true answers.
C8_DoWhile ==
    (handler = "QueryData" /\ PaginatorObtained) =>
        /\ Len(log) >= 2 => log[2].op = "GetNextPage"
        /\ \A i \in 2..Len(log) :
             /\ log[i].op # "paginator"
             /\ log[i].op = "HasNextPage" =>
                    log[i-1].op = "GetNextPage" /\ log[i-1].err = ""
             /\ (log[i].op = "GetNextPage" /\ i > 2) =>
                    log[i-1].op = "HasNextPage" /\ log[i-1].more
             /\ (log[i].op = "HasNextPage" /\ ~log[i].more) => i = Len(log)
             /\ (log[i].op = "GetNextPage" /\ log[i].err # "") => i = Len(log)
        /\ pc \in {"sample", "HasNextPage", "store"} => NGetNext(log) = 1 + NTrue(log)
        /\ pc = "GetNextPage" => NGetNext(log) = NTrue(log)
        /\ pc = "HasNextPage" => NHasNext(log) = NGetNext(log) - 1
        /\ (AtReturn /\ Succeeded(res)) =>
                NHasNext(log) = NGetNext(log) /\ ~Last(log).more
        /\ (AtReturn /\ ~Succeeded(res)) => NHasNext(log) = NGetNext(log) - 1

\* C8 witness: an empty first page, a true answer, a second page, a false
\* answer.
C8_Witness ==
    /\ AtReturn /\ PaginatorObtained /\ Succeeded(res)
    /\ NGetNext(log) = 2 /\ NTrue(log) = 1 /\ NHasNext(log) = 2
    /\ log[2].page = <<>>

\* C9: the series under construction is, in order, the samples of the pages
\* yielded so far that the loop has gone past; the returned Time and Value
\* columns are the yielded samples in the order yielded; when the yielded
\* timestamps ascend, the Time column does not decrease.
C9_InOrder ==
    (handler = "QueryData" /\ PaginatorObtained) =>
        LET Y == Yielded(log) IN
        /\ timestamps = TimesOf(SubSeq(Y, 1, Processed))
        /\ values = NumbersOf(SubSeq(Y, 1, Processed))
        /\ (AtReturn /\ Succeeded(res)) =>
            /\ res.Frames[1].Time = TimesOf(Y)
            /\ res.Frames[1].Value = NumbersOf(Y)
            /\ (\A i \in 1..(Len(Y) - 1) : Y[i].Timestamp <= Y[i+1].Timestamp)
                => \A i \in 1..(Len(res.Frames[1].Time) - 1) :
                        res.Frames[1].Time[i] <= res.Frames[1].Time[i+1]

\* C9 witness: two pages of one sample each, ascending, returned as a series.
C9_Witness ==
    /\ AtReturn /\ PaginatorObtained /\ Succeeded(res)
    /\ NGetNext(log) = 2
    /\ res.Frames[1].Time = <<1, 2>>
    /\ res.Frames[1].Value = <<10, 20>>

\* C10: timestamps and values have the same length at every point, which is
\* the number of samples accepted so far (a rejected sample adds to neither);
\* a successful result has exactly one frame, with columns of equal length,
\* and a failed one has none.
C10_ParallelArrays ==
    handler = "QueryData" =>
        /\ Len(timestamps) = Len(values)
        /\ PaginatorObtained => Len(timestamps) = Processed
        /\ (AtReturn /\ res.Error = NoError) =>
            /\ Len(res.Frames) = 1
            /\ Len(res.Frames[1].Time) = Len(res.Frames[1].Value)
            /\ Len(res.Frames[1].Time) = Len(Yielded(log))
        /\ (AtReturn /\ res.Error # NoError) => res.Frames = <<>>

\* C10 witness: a successful result with no sample at all.
C10_Witness ==
    /\ AtReturn /\ PaginatorObtained
    /\ res.Error = NoError
    /\ Len(res.Frames) = 1
    /\ res.Frames[1].Time = <<>> /\ res.Frames[1].Value = <<>>

\* What query() returns for one payload and one sequence of client answers,
\* computed in one pass over the answers: the result of the query taken alone.
RECURSIVE AloneFrom(_, _, _, _)
AloneFrom(m, l, i, acc) ==
    IF i > Len(l) THEN [Error |-> NoError, Frames |-> <<>>]
    ELSE IF l[i].op = "GetNextPage"
    THEN IF l[i].err # ""
         THEN [Error |-> [kind |-> "remote", msg |-> l[i].err, device |-> "",
                          interfaceName |-> "", path |-> ""],
               Frames |-> <<>>]
         ELSE IF \E k \in 1..Len(l[i].page) : ~IsNumeric(l[i].page[k])
         THEN [Error |-> [kind |-> "type", msg |-> "has no int/double data",
                          device |-> m.Device, interfaceName |-> m.InterfaceName,
                          path |-> m.Path],
               Frames |-> <<>>]
         ELSE AloneFrom(m, l, i + 1, acc \o l[i].page)
    ELSE IF l[i].more
    THEN AloneFrom(m, l, i + 1, acc)
    ELSE [Error |-> NoError,
          Frames |-> << [Name |-> "response", Time |-> TimesOf(acc),
                         Value |-> NumbersOf(acc)] >>]

Alone(json, l) ==
    IF ~json.wellFormed
    THEN [Error |-> JSONError, Frames |-> <<>>]
    ELSE IF l[1].err # ""
    THEN [Error |-> [kind |-> "remote", msg |-> l[1].err, device |-> "",
                     interfaceName |-> "", path |-> ""],
          Frames |-> <<>>]
    ELSE AloneFrom([Device        |-> Field(json.members, "device"),
                    InterfaceName |-> Field(json.members, "interfaceName"),
                    Path          |-> Field(json.members, "path")],
                   l, 2, <<>>)

RefIDsUpTo(n) == { req[j].RefID : j \in 1..n }

\* C2: while a batch runs, the response holds one result for each query
\* that has returned and nothing else; when it ends, every query of the batch
\* has its result under its own RefID; the result stored for a query is what
\* that query yields alone on its own payload and client answers, and a
\* result once stored is not touched by the queries after it.
C2_BatchIsolation ==
    /\ [](handler = "QueryData" =>
            /\ DOMAIN responses = RefIDsUpTo(qi - 1)
            /\ pc = "done" => qi = Len(req) + 1)
    /\ [][handler = "QueryData" =>
            IF pc = "store"
            THEN /\ DOMAIN responses' = DOMAIN responses \cup {req[qi].RefID}
                 /\ responses'[req[qi].RefID] = Alone(req[qi].JSON, log)
                 /\ \A k \in DOMAIN responses : responses'[k] = responses[k]
            ELSE responses' = responses]_vars

\* C2 witness: a finished batch whose first query failed on malformed JSON
\* and whose second query returned a series with samples.
C2_Witness ==
    /\ handler = "QueryData" /\ pc = "done"
    /\ Len(req) = 2
    /\ ~req[1].JSON.wellFormed
    /\ DOMAIN responses = {req[1].RefID, req[2].RefID}
    /\ responses[req[1].RefID].Error.kind = "json"
    /\ Succeeded(responses[req[2].RefID])
    /\ Len(responses[req[2].RefID].Frames[1].Time) = 2

\* Position, in the order yielded, of the first bool or nil sample.
HasBoolOrNil(ss) == \E i \in 1..Len(ss) : IsBoolOrNil(ss[i])
FirstBoolOrNil(ss) ==
    CHOOSE i \in 1..Len(ss) :
        IsBoolOrNil(ss[i]) /\ \A j \in 1..(i - 1) : ~IsBoolOrNil(ss[j])

\* C3: once a fetched page holds a bool or nil sample, the fetch goes no
\* further than that sample: the page is the last client call of the query,
\* the samples taken into the series all precede it, and the query returns
\* no frame and the error naming the payload's device, interface and path.
C3_BoolOrNilAborts ==
    (handler = "QueryData" /\ HasBoolOrNil(Yielded(log))) =>
        LET first == FirstBoolOrNil(Yielded(log)) IN
        /\ Last(log).op = "GetNextPage"
        /\ pc \in {"sample", "store"}
        /\ Processed < first
        /\ Len(timestamps) < first /\ Len(values) < first
        /\ pc = "store" =>
            /\ res.Frames = <<>>
            /\ res.Error.kind = "type"
            /\ res.Error.device = Field(req[qi].JSON.members, "device")
            /\ res.Error.interfaceName = Field(req[qi].JSON.members, "interfaceName")
            /\ res.Error.path = Field(req[qi].JSON.members, "path")

\* C3 witness: the query with device d1, interface i1, path /p stopped at a
\* bool on its second page, after a sample of the first page was accepted.
C3_Witness ==
    /\ AtReturn
    /\ HasBoolOrNil(Yielded(log))
    /\ NGetNext(log) = 2
    /\ page[idx].type = "bool"
    /\ Len(timestamps) = 1
    /\ res.Error.device = "d1" /\ res.Error.interfaceName = "i1" /\ res.Error.path = "/p"

\* A payload that parses and leaves the device or the interface name empty.
NotRunnable(json) ==
    /\ json.wellFormed
    /\ \/ Field(json.members, "device") = ""
       \/ Field(json.members, "interfaceName") = ""

\* strconv.ParseFloat on the strings of the model.
ParsesAsNumber(str) == str = "7"
ParsedNumber(str) == IF str = "7" THEN 7 ELSE 0

\* The yielded samples a string-tolerant fetch keeps, with their values.
RECURSIVE KeptOf(_)
KeptOf(ss) ==
    IF ss = <<>> THEN <<>>
    ELSE LET v == Last(ss) IN
         IF IsNumeric(v) THEN KeptOf(Front(ss)) \o << <<v.Timestamp, v.num>> >>
         ELSE IF IsString(v) /\ ParsesAsNumber(v.str)
         THEN KeptOf(Front(ss)) \o << <<v.Timestamp, ParsedNumber(v.str)>> >>
         ELSE KeptOf(Front(ss))

\* C4 (as claimed): a string sample never fails the fetch.  A runnable query that
\* returns the type error stopped at a sample that is not a string, and a
\* query whose pages hold only numbers and strings returns, with no error,
\* the series of the numbers and of the strings that parse.
C4_StringNeverFatal ==
    (AtReturn /\ ~NotRunnable(req[qi].JSON)) =>
        /\ res.Error.kind = "type" => ~IsString(page[idx])
        /\ (/\ PaginatorObtained
            /\ Last(log).op = "HasNextPage"
            /\ \A i \in 1..Len(Yielded(log)) : ~IsBoolOrNil(Yielded(log)[i]))
            => /\ Succeeded(res)
               /\ res.Frames[1].Time = [i \in 1..Len(KeptOf(Yielded(log))) |-> KeptOf(Yielded(log))[i][1]]
               /\ res.Frames[1].Value = [i \in 1..Len(KeptOf(Yielded(log))) |-> KeptOf(Yielded(log))[i][2]]

\* C5 (as claimed): a query whose device or interface name is missing or
\* empty makes no call to the client and returns a caller error.
C5_NotRunnableRejected ==
    (handler = "QueryData" /\ qi \in 1..Len(req) /\ NotRunnable(req[qi].JSON)) =>
        /\ log = <<>>
        /\ pc = "store" =>
            /\ res.Frames = <<>>
            /\ res.Error.kind \in {"json", "validation"}

\* The fixed message of an unrecognized resource request.
UnexpectedRequest == "unexpected request"

\* C6 (as claimed): a resource request with neither device_id nor both name
\* and major is answered 400 with the fixed message, the remote untouched.
C6_UnrecognizedIs400 ==
    (/\ handler = "CallResource" /\ pc = "done"
     /\ url.parsed
     /\ "device_id" \notin url.params
     /\ ~({"name", "major"} \subseteq url.params))
        => /\ Len(sent) = 1
           /\ sent[1].Status = 400
           /\ sent[1].Body.text = UnexpectedRequest
           /\ contacted = 0

\* C7 (as claimed): a query whose context was cancelled while it was being
\* fetched returns the cancellation error and no frame.
C7_CancelledNoSeries ==
    (AtReturn /\ ctxDone /\ PaginatorObtained /\ ~NotRunnable(req[qi].JSON)) =>
        /\ res.Frames = <<>>
        /\ res.Error.kind = "cancelled"

====
